---- MODULE Spec2Model ----
(***************************************************************************)
(* Model of the Salt state module _states/alkivi_chocolatey.py: the six    *)
(* state functions source_present, source_absent, feature_enabled,         *)
(* feature_disabled, feature_gui_enabled and feature_gui_disabled, run one *)
(* pass at a time against a chocolatey provider reached through __salt__.  *)
(*                                                                         *)
(* Text (provider output, comments, exception messages) is a sequence of   *)
(* words; a Python dict is a function whose DOMAIN is the dict's key set.  *)
(***************************************************************************)
EXTENDS Integers, Sequences, FiniteSets, TLC

VARIABLES
    choco_sources,        \* what alkivi_chocolatey.list_sources() reports
    choco_features,       \* what alkivi_chocolatey.list_features() reports
    choco_features_gui,   \* what alkivi_chocolatey.list_features_gui() reports
    pass,                 \* the last pass: entry point, arguments, __opts__["test"]
    snapshot,             \* the listing the last pass read (local sources / features)
    calls,                \* the __salt__ calls of the last pass, in order
    ret,                  \* the dict the last pass returned, or NoReturn
    exc                   \* the exception the last pass raised, or NoException

vars == <<choco_sources, choco_features, choco_features_gui,
          pass, snapshot, calls, ret, exc>>

----------------------------------------------------------------------------
(* Bounds of the model *)

NumLocations == 2

Locations == {"https://host" \o ToString(i) : i \in 1 .. NumLocations}

SourceNames == {"repo1"}
OtherSourceNames == {"other"}
FeatureNames == {"useNuGet"}
OtherFeatureNames == {"otherFeature"}
UnknownFeatureNames == {"noSuchFeature"}

None == "None"
Credentials == {<<None, None>>, <<"user", "secret">>}

\* Flag text as the provider may report it.
FlagTexts == {"True", "False", ""}

\* Output text of a provider mutation call.
OutputOk == <<"Chocolatey", "v0.10.15">>
OutputFailed == <<"Error:", "Running", "chocolatey", "failed", "exit", "1">>
Outputs == {OutputOk, OutputFailed}

----------------------------------------------------------------------------
(* Python values *)

PyTrue == "True"
PyNone == None
EmptyText == <<>>
NoReturn == [name |-> "-", result |-> "-", changes |-> {}, comment |-> EmptyText]
NoException == [type |-> "-", message |-> EmptyText]
NoArg == "-"

\* needle in haystack, for texts
TextIn(needle, haystack) ==
    \E i \in 0 .. (Len(haystack) - Len(needle)) :
        SubSeq(haystack, i + 1, i + Len(needle)) = needle

FailureMarker == <<"Running", "chocolatey", "failed">>

\* ret = {"name": name, "result": True, "changes": {}, "comment": ""}
InitialRet(name) ==
    [name |-> name, result |-> PyTrue, changes |-> {}, comment |-> EmptyText]

\* a one-entry changes dict {name: text}
Changes(name, text) == {<<name, text>>}

\* raise CommandExecutionError(...): the module imports only SaltInvocationError
\* from salt.exceptions, so looking the name up raises NameError before the
\* message is built.
RaiseCommandExecutionError(message) ==
    [type |-> "NameError",
     message |-> <<"name", "CommandExecutionError", "is", "not", "defined">>]

----------------------------------------------------------------------------
(* The chocolatey execution modules behind __salt__ *)

BoolText(b) == IF b THEN "True" ELSE "False"

SourceRecord(disabled, self_service, admin_only, url) ==
    [k \in {"Disabled", "Self-Service", "Admin-Only", "URL: "} |->
        CASE k = "Disabled" -> disabled
          [] k = "Self-Service" -> self_service
          [] k = "Admin-Only" -> admin_only
          [] k = "URL: " -> url]

FeatureRecord(enabled) == [k \in {"Enabled"} |-> enabled]

\* A recorded call __salt__[fn](name), with the text it returned.
Call(fn, name, output) ==
    [fn |-> fn, name |-> name, source_location |-> NoArg, username |-> NoArg,
     password |-> NoArg, allow_self_service |-> FALSE, admin_only |-> FALSE,
     output |-> output]

\* A recorded listing call __salt__[fn]().
CallList(fn) == Call(fn, NoArg, EmptyText)

\* A recorded call __salt__["alkivi_chocolatey.add_source"](name, source_location,
\* username=, password=, allow_self_service=, admin_only=).
CallAddSource(name, source_location, username, password, allow_self_service, admin_only, output) ==
    [fn |-> "alkivi_chocolatey.add_source", name |-> name,
     source_location |-> source_location, username |-> username,
     password |-> password, allow_self_service |-> allow_self_service,
     admin_only |-> admin_only, output |-> output]

\* A call whose output carries the failure marker leaves the provider as it was.
ProviderFailed(output) == TextIn(FailureMarker, output)

\* add_source registers the source enabled, with the given location and flags.
add_source(srcs, name, source_location, allow_self_service, admin_only, output) ==
    IF ProviderFailed(output) THEN srcs
    ELSE [n \in DOMAIN srcs \cup {name} |->
            IF n = name
            THEN SourceRecord("False", BoolText(allow_self_service),
                              BoolText(admin_only), source_location)
            ELSE srcs[n]]

remove_source(srcs, name, output) ==
    IF ProviderFailed(output) THEN srcs
    ELSE [n \in DOMAIN srcs \ {name} |-> srcs[n]]

set_source_disabled(srcs, name, text, output) ==
    IF ProviderFailed(output) \/ name \notin DOMAIN srcs THEN srcs
    ELSE [srcs EXCEPT ![name] =
            SourceRecord(text, srcs[name]["Self-Service"],
                         srcs[name]["Admin-Only"], srcs[name]["URL: "])]

enable_source(srcs, name, output) == set_source_disabled(srcs, name, "False", output)

disable_source(srcs, name, output) == set_source_disabled(srcs, name, "True", output)

set_feature(feats, name, text, output) ==
    IF ProviderFailed(output) \/ name \notin DOMAIN feats THEN feats
    ELSE [feats EXCEPT ![name] = FeatureRecord(text)]

enable_feature(feats, name, output) == set_feature(feats, name, "True", output)

disable_feature(feats, name, output) == set_feature(feats, name, "False", output)

----------------------------------------------------------------------------
(* source_present *)

\* opts_test with the test flag never looked at
opts_test_ignored(test) == FALSE

\* __opts__["test"]
opts_test(test) == test

\* IsTrueText as Python truthiness of the text: every non-empty text is true
IsTrueText_truthy(text) == text # ""

\* source[key] == 'True'
IsTrueText(text) == text = "True"

\* RemoveFailed with the output of remove_source never scanned
RemoveFailed_unchecked(result) == FALSE

\* "Running chocolatey failed" in result
RemoveFailed(result) == TextIn(FailureMarker, result)

\* need_changes with the enabled comparison inverted (enabled != Disabled)
need_changes_enabled_inverted(sources, name, source_location, enabled, allow_self_service, admin_only) ==
    IF name \in DOMAIN sources
    THEN LET source == sources[name]
         IN  (IF enabled # (source["Disabled"] = "True")
              THEN {"enabled"} ELSE {})
             \cup (IF allow_self_service # (source["Self-Service"] = "True")
                   THEN {"allow_self_service"} ELSE {})
             \cup (IF admin_only # (source["Admin-Only"] = "True")
                   THEN {"admin_only"} ELSE {})
             \cup (IF source_location # source["URL: "]
                   THEN {"source_location"} ELSE {})
    ELSE {}

\* The keys of need_changes after the comparisons of lines 69-81.
need_changes(sources, name, source_location, enabled, allow_self_service, admin_only) ==
    IF name \in DOMAIN sources
    THEN LET source == sources[name]
         IN  (IF enabled = IsTrueText(source["Disabled"])
              THEN {"enabled"} ELSE {})
             \cup (IF allow_self_service # IsTrueText(source["Self-Service"])
                   THEN {"allow_self_service"} ELSE {})
             \cup (IF admin_only # IsTrueText(source["Admin-Only"])
                   THEN {"admin_only"} ELSE {})
             \cup (IF source_location # source["URL: "]
                   THEN {"source_location"} ELSE {})
    ELSE {}

\* need_to_remove that forgets the admin_only mismatch
need_to_remove_without_admin_only(sources, name, source_location, enabled, allow_self_service, admin_only) ==
    need_changes(sources, name, source_location, enabled, allow_self_service,
                 admin_only)
        \cap {"allow_self_service", "source_location"} # {}

need_to_remove(sources, name, source_location, enabled, allow_self_service, admin_only) ==
    need_changes(sources, name, source_location, enabled, allow_self_service,
                 admin_only)
        \cap {"allow_self_service", "admin_only", "source_location"} # {}

need_to_create(sources, name) == name \notin DOMAIN sources

\* ToggleBranch as an if of its own instead of an elif
ToggleBranch_if(remove, changes) == "enabled" \in changes

\* The if / elif / elif chain of lines 98-126: which branch runs.
RecreateBranch(remove) == remove
ToggleBranch(remove, changes) == ~remove /\ "enabled" \in changes
CreateBranch(remove, changes, create) ==
    ~remove /\ "enabled" \notin changes /\ create

\* ret["changes"] as set by lines 86-92, before the test flag is looked at.
ProspectiveChanges(name, remove, changes, enabled) ==
    IF remove THEN Changes(name, "Will be re-created with correct params")
    ELSE IF "enabled" \in changes
         THEN IF enabled THEN Changes(name, "Will be enabled.")
              ELSE Changes(name, "Will be disabled.")
         ELSE {}

\* A frame is the state of a running pass: the provider's sources, the calls
\* made so far, ret, the exception raised (if any) and whether the pass is over.
Frame(srcs, cs, r, e, over) ==
    [srcs |-> srcs, calls |-> cs, ret |-> r, exc |-> e, over |-> over]

\* lines 98-108
RecreateStep(f, name, source_location, username, password, allow_self_service, admin_only, out1, out2) ==
    LET removed == remove_source(f.srcs, name, out1)
        cs1 == Append(f.calls, Call("alkivi_chocolatey.remove_source", name, out1))
    IN  IF RemoveFailed(out1)
        THEN Frame(removed, cs1, NoReturn,
                   RaiseCommandExecutionError(<<"tototo">>), TRUE)
        ELSE Frame(add_source(removed, name, source_location, allow_self_service,
                              admin_only, out2),
                   Append(cs1, CallAddSource(name, source_location, username,
                                             password, allow_self_service,
                                             admin_only, out2)),
                   [f.ret EXCEPT !.changes = Changes(name, "Was recreated."),
                                 !.comment = out2],
                   f.exc, FALSE)

\* lines 110-118; need_changes['enabled'] holds the enabled argument
ToggleStep(f, name, enabled, out1) ==
    IF enabled
    THEN Frame(enable_source(f.srcs, name, out1),
               Append(f.calls, Call("chocolatey.enable_source", name, out1)),
               [f.ret EXCEPT !.changes = Changes(name, "Was enabled."),
                             !.comment = out1],
               f.exc, FALSE)
    ELSE Frame(disable_source(f.srcs, name, out1),
               Append(f.calls, Call("chocolatey.disable_source", name, out1)),
               [f.ret EXCEPT !.changes = Changes(name, "Was disabled."),
                             !.comment = out1],
               f.exc, FALSE)

\* CreateStep that drops the credentials of the descriptor
CreateStep_without_credentials(f, name, source_location, username, password, allow_self_service, admin_only, out1) ==
    Frame(add_source(f.srcs, name, source_location, allow_self_service,
                     admin_only, out1),
          Append(f.calls, CallAddSource(name, source_location, None, None,
                                        allow_self_service, admin_only, out1)),
          [f.ret EXCEPT !.changes = Changes(name, "Was created."),
                        !.comment = out1],
          f.exc, FALSE)

\* lines 119-126
CreateStep(f, name, source_location, username, password, allow_self_service, admin_only, out1) ==
    Frame(add_source(f.srcs, name, source_location, allow_self_service,
                     admin_only, out1),
          Append(f.calls, CallAddSource(name, source_location, username, password,
                                        allow_self_service, admin_only, out1)),
          [f.ret EXCEPT !.changes = Changes(name, "Was created."),
                        !.comment = out1],
          f.exc, FALSE)

\* The whole function: the frame it ends in. out1 and out2 are the outputs of
\* the first and the second provider mutation call of the pass.
source_present_run(srcs, name, source_location, enabled, username, password, allow_self_service, admin_only, test, out1, out2) ==
    LET sources == srcs
        changes == need_changes(sources, name, source_location, enabled,
                                allow_self_service, admin_only)
        remove == need_to_remove(sources, name, source_location, enabled,
                                 allow_self_service, admin_only)
        create == need_to_create(sources, name)
        f0 == Frame(srcs, <<CallList("alkivi_chocolatey.list_sources")>>,
                    [InitialRet(name) EXCEPT
                        !.changes = ProspectiveChanges(name, remove, changes,
                                                       enabled)],
                    NoException, FALSE)
        f1 == IF RecreateBranch(remove)
              THEN RecreateStep(f0, name, source_location, username, password,
                                allow_self_service, admin_only, out1, out2)
              ELSE f0
        f2 == IF ~f1.over /\ ToggleBranch(remove, changes)
              THEN ToggleStep(f1, name, enabled, out1)
              ELSE f1
        f3 == IF ~f2.over /\ CreateBranch(remove, changes, create)
              THEN CreateStep(f2, name, source_location, username, password,
                              allow_self_service, admin_only, out1)
              ELSE f2
    IN  IF opts_test(test)
        THEN [f0 EXCEPT !.ret.result = PyNone, !.over = TRUE]
        ELSE [f3 EXCEPT !.over = TRUE]

\* The outputs the k-th mutation call of a pass may return, when the pass makes
\* n mutation calls if all succeed: a call that is not made has no output.
OutputsOfCall(k, n) == IF k <= n THEN Outputs ELSE {OutputOk}

MutationCalls(f) == Len(f.calls) - 1

PassRecord(fn, name, source_location, enabled, username, password, allow_self_service, admin_only, test) ==
    [fn |-> fn, name |-> name, source_location |-> source_location,
     enabled |-> enabled, username |-> username, password |-> password,
     allow_self_service |-> allow_self_service, admin_only |-> admin_only,
     test |-> test]

source_present ==
    \E name \in SourceNames, source_location \in Locations, enabled \in BOOLEAN,
       cred \in Credentials, allow_self_service \in BOOLEAN,
       admin_only \in BOOLEAN, test \in BOOLEAN :
      \E n \in {MutationCalls(source_present_run(choco_sources, name, source_location,
                    enabled, cred[1], cred[2], allow_self_service, admin_only,
                    test, OutputOk, OutputOk))} :
       \E out1 \in OutputsOfCall(1, n), out2 \in OutputsOfCall(2, n) :
        \E f \in {source_present_run(choco_sources, name, source_location, enabled,
                                    cred[1], cred[2], allow_self_service,
                                    admin_only, test, out1, out2)} :
            /\ pass' = PassRecord("source_present", name, source_location, enabled,
                                  cred[1], cred[2], allow_self_service,
                                  admin_only, test)
            /\ snapshot' = choco_sources
            /\ choco_sources' = f.srcs
            /\ calls' = f.calls
            /\ ret' = f.ret
            /\ exc' = f.exc
            /\ UNCHANGED <<choco_features, choco_features_gui>>

----------------------------------------------------------------------------
(* source_absent *)

\* source_absent_run without the check that the source is listed
source_absent_run_unchecked(srcs, name, test, out1) ==
    LET f0 == Frame(srcs, <<CallList("alkivi_chocolatey.list_sources")>>,
                    InitialRet(name), NoException, TRUE)
    IN  IF opts_test(test)
        THEN [f0 EXCEPT !.ret.result = PyNone,
                        !.ret.changes = Changes(name, "Will be removed.")]
        ELSE Frame(remove_source(srcs, name, out1),
                   Append(f0.calls, Call("alkivi_chocolatey.remove_source", name, out1)),
                   [f0.ret EXCEPT !.changes = Changes(name, "Removed."),
                                  !.comment = out1],
                   NoException, TRUE)

\* source_absent_run whose removal takes every listed source with it
source_absent_run_clears_listing(srcs, name, test, out1) ==
    LET sources == srcs
        f0 == Frame(srcs, <<CallList("alkivi_chocolatey.list_sources")>>,
                    InitialRet(name), NoException, TRUE)
    IN  IF name \notin DOMAIN sources THEN f0
        ELSE IF opts_test(test)
        THEN [f0 EXCEPT !.ret.result = PyNone,
                        !.ret.changes = Changes(name, "Will be removed.")]
        ELSE Frame([n \in {} |-> srcs[n]],
                   Append(f0.calls, Call("alkivi_chocolatey.remove_source", name, out1)),
                   [f0.ret EXCEPT !.changes = Changes(name, "Removed."),
                                  !.comment = out1],
                   NoException, TRUE)

source_absent_run(srcs, name, test, out1) ==
    LET sources == srcs
        f0 == Frame(srcs, <<CallList("alkivi_chocolatey.list_sources")>>,
                    InitialRet(name), NoException, TRUE)
    IN  IF name \notin DOMAIN sources THEN f0
        ELSE IF opts_test(test)
        THEN [f0 EXCEPT !.ret.result = PyNone,
                        !.ret.changes = Changes(name, "Will be removed.")]
        ELSE Frame(remove_source(srcs, name, out1),
                   Append(f0.calls, Call("alkivi_chocolatey.remove_source", name, out1)),
                   [f0.ret EXCEPT !.changes = Changes(name, "Removed."),
                                  !.comment = out1],
                   NoException, TRUE)

source_absent ==
    \E name \in SourceNames, test \in BOOLEAN :
      \E n \in {MutationCalls(source_absent_run(choco_sources, name, test, OutputOk))} :
       \E out1 \in OutputsOfCall(1, n) :
        \E f \in {source_absent_run(choco_sources, name, test, out1)} :
            /\ pass' = PassRecord("source_absent", name, NoArg, FALSE, NoArg, NoArg,
                                  FALSE, FALSE, test)
            /\ snapshot' = choco_sources
            /\ choco_sources' = f.srcs
            /\ calls' = f.calls
            /\ ret' = f.ret
            /\ exc' = f.exc
            /\ UNCHANGED <<choco_features, choco_features_gui>>

----------------------------------------------------------------------------
(* feature_disabled, feature_enabled, feature_gui_disabled, feature_gui_enabled *)

\* feature_disabled_run testing the text's truthiness (not feature["Enabled"])
feature_disabled_run_truthy(feats, name, test, out1) ==
    LET features == feats
        f0 == Frame(feats, <<CallList("alkivi_chocolatey.list_features")>>,
                    InitialRet(name), NoException, TRUE)
    IN  IF name \notin DOMAIN features
        THEN [f0 EXCEPT !.ret = NoReturn,
                        !.exc = RaiseCommandExecutionError(
                                    <<"Feature", name, "not", "present">>)]
        ELSE IF features[name]["Enabled"] = "" THEN f0
        ELSE IF opts_test(test)
        THEN [f0 EXCEPT !.ret.result = PyNone,
                        !.ret.changes = Changes(name, "Will be removed.")]
        ELSE Frame(disable_feature(feats, name, out1),
                   Append(f0.calls,
                          Call("alkivi_chocolatey.disable_feature", name, out1)),
                   [f0.ret EXCEPT !.changes = Changes(name, "Disabled."),
                                  !.comment = out1],
                   NoException, TRUE)

\* lines 186-211
feature_disabled_run(feats, name, test, out1) ==
    LET features == feats
        f0 == Frame(feats, <<CallList("alkivi_chocolatey.list_features")>>,
                    InitialRet(name), NoException, TRUE)
    IN  IF name \notin DOMAIN features
        THEN [f0 EXCEPT !.ret = NoReturn,
                        !.exc = RaiseCommandExecutionError(
                                    <<"Feature", name, "not", "present">>)]
        ELSE IF features[name]["Enabled"] = "False" THEN f0
        ELSE IF opts_test(test)
        THEN [f0 EXCEPT !.ret.result = PyNone,
                        !.ret.changes = Changes(name, "Will be removed.")]
        ELSE Frame(disable_feature(feats, name, out1),
                   Append(f0.calls, Call("alkivi_chocolatey.disable_feature", name, out1)),
                   [f0.ret EXCEPT !.changes = Changes(name, "Disabled."),
                                  !.comment = out1],
                   NoException, TRUE)

feature_disabled ==
    \E name \in FeatureNames \cup UnknownFeatureNames, test \in BOOLEAN :
      \E n \in {MutationCalls(feature_disabled_run(choco_features, name, test, OutputOk))} :
       \E out1 \in OutputsOfCall(1, n) :
        \E f \in {feature_disabled_run(choco_features, name, test, out1)} :
            /\ pass' = PassRecord("feature_disabled", name, NoArg, FALSE, NoArg, NoArg,
                                  FALSE, FALSE, test)
            /\ snapshot' = choco_features
            /\ choco_features' = f.srcs
            /\ calls' = f.calls
            /\ ret' = f.ret
            /\ exc' = f.exc
            /\ UNCHANGED <<choco_sources, choco_features_gui>>

\* feature_enabled_run calling disable_feature (the body of feature_disabled
\* pasted without changing the call)
feature_enabled_run_disables(feats, name, test, out1) ==
    LET features == feats
        f0 == Frame(feats, <<CallList("alkivi_chocolatey.list_features")>>,
                    InitialRet(name), NoException, TRUE)
    IN  IF name \notin DOMAIN features
        THEN [f0 EXCEPT !.ret = NoReturn,
                        !.exc = RaiseCommandExecutionError(
                                    <<"Feature", name, "not", "present">>)]
        ELSE IF features[name]["Enabled"] = "True" THEN f0
        ELSE IF opts_test(test)
        THEN [f0 EXCEPT !.ret.result = PyNone,
                        !.ret.changes = Changes(name, "Will be removed.")]
        ELSE Frame(disable_feature(feats, name, out1),
                   Append(f0.calls,
                          Call("alkivi_chocolatey.disable_feature", name, out1)),
                   [f0.ret EXCEPT !.changes = Changes(name, "Disabled."),
                                  !.comment = out1],
                   NoException, TRUE)

\* lines 232-257
feature_enabled_run(feats, name, test, out1) ==
    LET features == feats
        f0 == Frame(feats, <<CallList("alkivi_chocolatey.list_features")>>,
                    InitialRet(name), NoException, TRUE)
    IN  IF name \notin DOMAIN features
        THEN [f0 EXCEPT !.ret = NoReturn,
                        !.exc = RaiseCommandExecutionError(
                                    <<"Feature", name, "not", "present">>)]
        ELSE IF features[name]["Enabled"] = "True" THEN f0
        ELSE IF opts_test(test)
        THEN [f0 EXCEPT !.ret.result = PyNone,
                        !.ret.changes = Changes(name, "Will be removed.")]
        ELSE Frame(enable_feature(feats, name, out1),
                   Append(f0.calls, Call("alkivi_chocolatey.enable_feature", name, out1)),
                   [f0.ret EXCEPT !.changes = Changes(name, "Enabled."),
                                  !.comment = out1],
                   NoException, TRUE)

feature_enabled ==
    \E name \in FeatureNames \cup UnknownFeatureNames, test \in BOOLEAN :
      \E n \in {MutationCalls(feature_enabled_run(choco_features, name, test, OutputOk))} :
       \E out1 \in OutputsOfCall(1, n) :
        \E f \in {feature_enabled_run(choco_features, name, test, out1)} :
            /\ pass' = PassRecord("feature_enabled", name, NoArg, FALSE, NoArg, NoArg,
                                  FALSE, FALSE, test)
            /\ snapshot' = choco_features
            /\ choco_features' = f.srcs
            /\ calls' = f.calls
            /\ ret' = f.ret
            /\ exc' = f.exc
            /\ UNCHANGED <<choco_sources, choco_features_gui>>

\* feature_gui_disabled_run calling the standard disable_feature
feature_gui_disabled_run_standard_call(feats, name, test, out1) ==
    LET features == feats
        f0 == Frame(feats, <<CallList("alkivi_chocolatey.list_features_gui")>>,
                    InitialRet(name), NoException, TRUE)
    IN  IF name \notin DOMAIN features
        THEN [f0 EXCEPT !.ret = NoReturn,
                        !.exc = RaiseCommandExecutionError(
                                    <<"Feature", name, "not", "present">>)]
        ELSE IF features[name]["Enabled"] = "False" THEN f0
        ELSE IF opts_test(test)
        THEN [f0 EXCEPT !.ret.result = PyNone,
                        !.ret.changes = Changes(name, "Will be removed.")]
        ELSE Frame(disable_feature(feats, name, out1),
                   Append(f0.calls,
                          Call("alkivi_chocolatey.disable_feature", name, out1)),
                   [f0.ret EXCEPT !.changes = Changes(name, "Disabled."),
                                  !.comment = out1],
                   NoException, TRUE)

\* lines 277-302
feature_gui_disabled_run(feats, name, test, out1) ==
    LET features == feats
        f0 == Frame(feats, <<CallList("alkivi_chocolatey.list_features_gui")>>,
                    InitialRet(name), NoException, TRUE)
    IN  IF name \notin DOMAIN features
        THEN [f0 EXCEPT !.ret = NoReturn,
                        !.exc = RaiseCommandExecutionError(
                                    <<"Feature", name, "not", "present">>)]
        ELSE IF features[name]["Enabled"] = "False" THEN f0
        ELSE IF opts_test(test)
        THEN [f0 EXCEPT !.ret.result = PyNone,
                        !.ret.changes = Changes(name, "Will be removed.")]
        ELSE Frame(disable_feature(feats, name, out1),
                   Append(f0.calls, Call("alkivi_chocolatey.disable_feature_gui", name, out1)),
                   [f0.ret EXCEPT !.changes = Changes(name, "Disabled."),
                                  !.comment = out1],
                   NoException, TRUE)

feature_gui_disabled ==
    \E name \in FeatureNames \cup UnknownFeatureNames, test \in BOOLEAN :
      \E n \in {MutationCalls(feature_gui_disabled_run(choco_features_gui, name, test, OutputOk))} :
       \E out1 \in OutputsOfCall(1, n) :
        \E f \in {feature_gui_disabled_run(choco_features_gui, name, test, out1)} :
            /\ pass' = PassRecord("feature_gui_disabled", name, NoArg, FALSE, NoArg, NoArg,
                                  FALSE, FALSE, test)
            /\ snapshot' = choco_features_gui
            /\ choco_features_gui' = f.srcs
            /\ calls' = f.calls
            /\ ret' = f.ret
            /\ exc' = f.exc
            /\ UNCHANGED <<choco_sources, choco_features>>

\* feature_gui_enabled_run returning ret for a feature it does not know
feature_gui_enabled_run_lenient(feats, name, test, out1) ==
    LET features == feats
        f0 == Frame(feats, <<CallList("alkivi_chocolatey.list_features_gui")>>,
                    InitialRet(name), NoException, TRUE)
    IN  IF name \notin DOMAIN features THEN f0
        ELSE IF features[name]["Enabled"] = "True" THEN f0
        ELSE IF opts_test(test)
        THEN [f0 EXCEPT !.ret.result = PyNone,
                        !.ret.changes = Changes(name, "Will be removed.")]
        ELSE Frame(enable_feature(feats, name, out1),
                   Append(f0.calls,
                          Call("alkivi_chocolatey.enable_feature_gui", name, out1)),
                   [f0.ret EXCEPT !.changes = Changes(name, "Enabled."),
                                  !.comment = out1],
                   NoException, TRUE)

\* lines 322-347
feature_gui_enabled_run(feats, name, test, out1) ==
    LET features == feats
        f0 == Frame(feats, <<CallList("alkivi_chocolatey.list_features_gui")>>,
                    InitialRet(name), NoException, TRUE)
    IN  IF name \notin DOMAIN features
        THEN [f0 EXCEPT !.ret = NoReturn,
                        !.exc = RaiseCommandExecutionError(
                                    <<"Feature", name, "not", "present">>)]
        ELSE IF features[name]["Enabled"] = "True" THEN f0
        ELSE IF opts_test(test)
        THEN [f0 EXCEPT !.ret.result = PyNone,
                        !.ret.changes = Changes(name, "Will be removed.")]
        ELSE Frame(enable_feature(feats, name, out1),
                   Append(f0.calls, Call("alkivi_chocolatey.enable_feature_gui", name, out1)),
                   [f0.ret EXCEPT !.changes = Changes(name, "Enabled."),
                                  !.comment = out1],
                   NoException, TRUE)

feature_gui_enabled ==
    \E name \in FeatureNames \cup UnknownFeatureNames, test \in BOOLEAN :
      \E n \in {MutationCalls(feature_gui_enabled_run(choco_features_gui, name, test, OutputOk))} :
       \E out1 \in OutputsOfCall(1, n) :
        \E f \in {feature_gui_enabled_run(choco_features_gui, name, test, out1)} :
            /\ pass' = PassRecord("feature_gui_enabled", name, NoArg, FALSE, NoArg, NoArg,
                                  FALSE, FALSE, test)
            /\ snapshot' = choco_features_gui
            /\ choco_features_gui' = f.srcs
            /\ calls' = f.calls
            /\ ret' = f.ret
            /\ exc' = f.exc
            /\ UNCHANGED <<choco_sources, choco_features>>

----------------------------------------------------------------------------
(* The state machine: any sequence of passes against one provider *)

\* The flag texts the provider writes itself.
CanonicalTexts == {"True", "False"}

SourceRecords(texts) ==
    {SourceRecord(d, s, a, u) :
        d \in texts, s \in texts, a \in texts, u \in Locations}

OtherSource == SourceRecord("False", "False", "False", "https://other")

\* list_sources: the other source is always registered, a named one may be.
SourceListings(texts) ==
    {l \in UNION {[SourceNames \cup OtherSourceNames ->
                        SourceRecords(texts) \cup {OtherSource}],
                  [OtherSourceNames -> {OtherSource}]} :
        \A n \in DOMAIN l :
            IF n \in OtherSourceNames THEN l[n] = OtherSource
            ELSE l[n] \in SourceRecords(texts)}

\* list_features, list_features_gui: the provider defines the feature set.
FeatureListings(texts) ==
    {[n \in FeatureNames \cup OtherFeatureNames |->
        IF n \in FeatureNames THEN FeatureRecord(t) ELSE FeatureRecord("True")] :
        t \in texts}

InitPass ==
    /\ pass = PassRecord("-", NoArg, NoArg, FALSE, NoArg, NoArg, FALSE, FALSE, FALSE)
    /\ snapshot = choco_sources
    /\ calls = <<>>
    /\ ret = NoReturn
    /\ exc = NoException

Init ==
    /\ choco_sources \in SourceListings(CanonicalTexts)
    /\ choco_features \in FeatureListings(FlagTexts)
    /\ choco_features_gui \in FeatureListings(FlagTexts)
    /\ InitPass

\* The source functions alone, against every flag text of FlagTexts.
InitSource ==
    /\ choco_sources \in SourceListings(FlagTexts)
    /\ choco_features \in FeatureListings({"True"})
    /\ choco_features_gui \in FeatureListings({"True"})
    /\ InitPass

NextSource ==
    \/ source_present
    \/ source_absent

SpecSource == InitSource /\ [][NextSource]_vars

\* The feature functions alone.
InitFeature ==
    /\ choco_sources \in SourceListings({"False"})
    /\ choco_features \in FeatureListings(FlagTexts)
    /\ choco_features_gui \in FeatureListings(FlagTexts)
    /\ InitPass

NextFeature ==
    \/ feature_disabled
    \/ feature_enabled
    \/ feature_gui_disabled
    \/ feature_gui_enabled

SpecFeature == InitFeature /\ [][NextFeature]_vars

Next ==
    \/ source_present
    \/ source_absent
    \/ feature_disabled
    \/ feature_enabled
    \/ feature_gui_disabled
    \/ feature_gui_enabled

Spec == Init /\ [][Next]_vars

----------------------------------------------------------------------------
(* What a pass did, read from its record *)

MutationFns ==
    {"alkivi_chocolatey.add_source", "alkivi_chocolatey.remove_source",
     "chocolatey.enable_source", "chocolatey.disable_source",
     "alkivi_chocolatey.enable_feature", "alkivi_chocolatey.disable_feature",
     "alkivi_chocolatey.enable_feature_gui",
     "alkivi_chocolatey.disable_feature_gui"}

IsMutation(c) == c.fn \in MutationFns

\* The mutation calls of the last pass, in order, without the text they returned.
Mutations == [i \in 1 .. Len(SelectSeq(calls, IsMutation)) |->
                [SelectSeq(calls, IsMutation)[i] EXCEPT !.output = EmptyText]]

MutationNames == [i \in 1 .. Len(Mutations) |-> Mutations[i].fn]

Returned == exc = NoException /\ ret # NoReturn
Raised == exc # NoException /\ ret = NoReturn

SourcePass == pass.fn \in {"source_present", "source_absent"}
FeaturePass == pass.fn \in {"feature_enabled", "feature_disabled",
                            "feature_gui_enabled", "feature_gui_disabled"}
RealSourcePresent == pass.fn = "source_present" /\ ~pass.test

\* The descriptor of a source_present pass against the listing the pass read,
\* booleans read from the provider's 'True' / 'False' text.
InSnapshot == pass.name \in DOMAIN snapshot
LocationDiffers == snapshot[pass.name]["URL: "] # pass.source_location
SelfServiceDiffers ==
    pass.allow_self_service # (snapshot[pass.name]["Self-Service"] = "True")
AdminOnlyDiffers == pass.admin_only # (snapshot[pass.name]["Admin-Only"] = "True")
EnabledDiffers == pass.enabled # (snapshot[pass.name]["Disabled"] # "True")
RecreateNeeded ==
    InSnapshot /\ (LocationDiffers \/ SelfServiceDiffers \/ AdminOnlyDiffers)

DesiredAdd ==
    CallAddSource(pass.name, pass.source_location, pass.username, pass.password,
                  pass.allow_self_service, pass.admin_only, EmptyText)
RemoveOfName == Call("alkivi_chocolatey.remove_source", pass.name, EmptyText)

----------------------------------------------------------------------------
(* The claims *)

\* C1: a pass run with the test flag set makes no provider mutation call, at
\* any of the six entry points, whatever the listing and the descriptor, and
\* the provider's listings are what they were.
C1_DryRunNeverMutates ==
    pass.test =>
        /\ Mutations = <<>>
        /\ SourcePass => choco_sources = snapshot
        /\ pass.fn \in {"feature_enabled", "feature_disabled"} =>
               choco_features = snapshot
        /\ pass.fn \in {"feature_gui_enabled", "feature_gui_disabled"} =>
               choco_features_gui = snapshot

\* A dry-run source_present pass whose diff asks for a recreate.
C1_Witness ==
    /\ pass.fn = "source_present" /\ pass.test
    /\ RecreateNeeded
    /\ ret.changes = Changes(pass.name, "Will be re-created with correct params")

\* C2: in a real source_present pass whose action is Recreate, remove_source
\* is the first mutation and add_source comes only after it; when the output
\* of remove_source carries the failure marker, add_source is not called and
\* the pass raises instead of returning.
C2_RemoveBeforeAddFailFast ==
    (RealSourcePresent /\ RecreateNeeded) =>
        /\ Len(calls) >= 2
        /\ calls[2].fn = "alkivi_chocolatey.remove_source"
        /\ calls[2].name = pass.name
        /\ \A i \in 1 .. Len(calls) :
               calls[i].fn = "alkivi_chocolatey.add_source" => i > 2
        /\ TextIn(FailureMarker, calls[2].output) =>
               /\ \A i \in 1 .. Len(calls) :
                      calls[i].fn # "alkivi_chocolatey.add_source"
               /\ Raised

\* A recreate whose remove_source failed.
C2_Witness ==
    /\ RealSourcePresent /\ RecreateNeeded
    /\ calls[2].output = OutputFailed
    /\ Raised

\* C3 as stated: a real pass against a listed source whose location,
\* self-service or admin-only value differs makes exactly remove_source(name)
\* then add_source(name, desired values), and no enable / disable call.
C3_RecreateAlwaysRemoveThenAdd ==
    (RealSourcePresent /\ RecreateNeeded) =>
        Mutations = <<RemoveOfName, DesiredAdd>>

\* C3 amended: such a pass calls remove_source(name) first and makes no enable /
\* disable call; when the output of remove_source does not carry the failure
\* marker the mutations are exactly remove_source(name) then add_source(name,
\* desired values), and when it does the remove is the only mutation.
C3_RecreateUnlessRemoveFails ==
    (RealSourcePresent /\ RecreateNeeded) =>
        /\ Len(calls) >= 2
        /\ IF TextIn(FailureMarker, calls[2].output)
           THEN Mutations = <<RemoveOfName>>
           ELSE Mutations = <<RemoveOfName, DesiredAdd>>

\* A recreate that went through, for a descriptor whose admin-only flag alone
\* differs.
C3_Witness ==
    /\ RealSourcePresent /\ InSnapshot
    /\ AdminOnlyDiffers /\ ~LocationDiffers /\ ~SelfServiceDiffers
    /\ Mutations = <<RemoveOfName, DesiredAdd>>
    /\ Returned

\* C4: a real pass against a listed source whose enabled flag alone differs
\* makes exactly one mutation, enable_source(name) when the source is wanted
\* enabled and disable_source(name) when it is wanted disabled.
C4_EnabledAloneToggles ==
    (RealSourcePresent /\ InSnapshot /\ ~RecreateNeeded /\ EnabledDiffers) =>
        Mutations = <<Call(IF pass.enabled THEN "chocolatey.enable_source"
                           ELSE "chocolatey.disable_source",
                           pass.name, EmptyText)>>

\* A source listed enabled and wanted disabled, nothing else differing.
C4_Witness ==
    /\ RealSourcePresent /\ InSnapshot /\ ~RecreateNeeded /\ EnabledDiffers
    /\ ~pass.enabled
    /\ MutationNames = <<"chocolatey.disable_source">>

\* C5: a real pass for a name that is no key of the listing calls add_source
\* once with the descriptor's values, makes no other mutation, and returns
\* the source as created.
C5_AbsentIsCreated ==
    (RealSourcePresent /\ ~InSnapshot) =>
        /\ Mutations = <<DesiredAdd>>
        /\ Returned
        /\ ret.changes = Changes(pass.name, "Was created.")

\* A create with credentials.
C5_Witness ==
    /\ RealSourcePresent /\ ~InSnapshot
    /\ pass.username = "user"
    /\ ret.changes = Changes(pass.name, "Was created.")

\* C6: a pass against a listed source whose enabled, self-service, admin-only
\* and location values all match makes no mutation and returns an empty
\* change set, whatever credentials the descriptor carries.
C6_MatchingIsNoOp ==
    (pass.fn = "source_present" /\ InSnapshot /\ ~RecreateNeeded
        /\ ~EnabledDiffers) =>
        /\ Mutations = <<>>
        /\ Returned
        /\ ret.changes = {}
        /\ choco_sources = snapshot

\* A matching source, a real pass, credentials given.
C6_Witness ==
    /\ RealSourcePresent /\ InSnapshot /\ ~RecreateNeeded /\ ~EnabledDiffers
    /\ pass.username = "user"
    /\ snapshot[pass.name]["Self-Service"] = "False"
    /\ Mutations = <<>>

\* A real recreate in which both provider calls succeeded.
RecreateSucceeded ==
    /\ RealSourcePresent /\ RecreateNeeded
    /\ Len(calls) = 3
    /\ ~TextIn(FailureMarker, calls[2].output)
    /\ ~TextIn(FailureMarker, calls[3].output)

\* C7 as stated: after one successful real recreate the listed source matches
\* the descriptor in location, self-service, admin-only and enabled.
C7_RecreateCarriesEnabled ==
    RecreateSucceeded =>
        /\ pass.name \in DOMAIN choco_sources
        /\ choco_sources[pass.name]["URL: "] = pass.source_location
        /\ (choco_sources[pass.name]["Self-Service"] = "True")
               = pass.allow_self_service
        /\ (choco_sources[pass.name]["Admin-Only"] = "True") = pass.admin_only
        /\ (choco_sources[pass.name]["Disabled"] # "True") = pass.enabled

\* C8: a source_present pass runs one action only: its mutations are none, a
\* create (add_source for an unlisted name), a recreate (remove_source then
\* add_source, or the remove_source alone when it failed) or one toggle, never
\* a recreate or a create together with a toggle.
C8_OneActionPerPass ==
    pass.fn = "source_present" =>
        /\ MutationNames \in
              {<<>>,
               <<"alkivi_chocolatey.add_source">>,
               <<"alkivi_chocolatey.remove_source">>,
               <<"alkivi_chocolatey.remove_source", "alkivi_chocolatey.add_source">>,
               <<"chocolatey.enable_source">>,
               <<"chocolatey.disable_source">>}
        /\ MutationNames = <<"alkivi_chocolatey.add_source">> => ~InSnapshot
        /\ (MutationNames # <<>> /\ MutationNames[1] = "alkivi_chocolatey.remove_source")
               => InSnapshot

\* A real pass against a source whose location and enabled flag both differ.
C8_Witness ==
    /\ RealSourcePresent /\ InSnapshot /\ LocationDiffers /\ EnabledDiffers
    /\ MutationNames =
          <<"alkivi_chocolatey.remove_source", "alkivi_chocolatey.add_source">>

\* C9: a feature pass, dry-run or real, for a name that is no key of the
\* feature listing raises instead of returning and makes no mutation.
C9_UnknownFeatureRaises ==
    (FeaturePass /\ pass.name \notin DOMAIN snapshot) =>
        /\ Raised
        /\ Mutations = <<>>
        /\ Len(calls) = 1

\* A real feature_gui_enabled pass for an unknown feature.
C9_Witness ==
    /\ pass.fn = "feature_gui_enabled" /\ ~pass.test
    /\ pass.name \in UnknownFeatureNames
    /\ Raised

\* The state a feature pass wants: enabled or disabled.
WantsEnabled == pass.fn \in {"feature_enabled", "feature_gui_enabled"}
ReportedText == snapshot[pass.name]["Enabled"]

\* C10: feature_enabled and feature_gui_enabled on a feature reported 'True',
\* feature_disabled and feature_gui_disabled on a feature reported 'False',
\* make no mutation and return result True with no changes, dry-run or real.
C10_FeatureInStateIsNoOp ==
    (FeaturePass /\ pass.name \in DOMAIN snapshot
        /\ ReportedText = (IF WantsEnabled THEN "True" ELSE "False")) =>
        /\ Mutations = <<>>
        /\ exc = NoException
        /\ ret = InitialRet(pass.name)

\* A real feature_disabled pass on a feature reported disabled.
C10_Witness ==
    /\ pass.fn = "feature_disabled" /\ ~pass.test
    /\ pass.name \in DOMAIN snapshot
    /\ ReportedText = "False"
    /\ ret = InitialRet(pass.name)

\* The provider call that brings a feature to the state the pass wants.
ToggleFn ==
    CASE pass.fn = "feature_enabled" -> "alkivi_chocolatey.enable_feature"
      [] pass.fn = "feature_disabled" -> "alkivi_chocolatey.disable_feature"
      [] pass.fn = "feature_gui_enabled" -> "alkivi_chocolatey.enable_feature_gui"
      [] pass.fn = "feature_gui_disabled" -> "alkivi_chocolatey.disable_feature_gui"
      [] OTHER -> NoArg

\* A listed feature reported in the opposite of the wanted state.
FeatureMismatched ==
    /\ FeaturePass /\ pass.name \in DOMAIN snapshot
    /\ ReportedText = (IF WantsEnabled THEN "False" ELSE "True")

\* C11: a real feature pass on a listed feature reported in the opposite state
\* makes exactly one mutation, the enable call for feature_enabled[_gui] and
\* the disable call for feature_disabled[_gui], on the feature's name; it
\* returns result True, the change and the provider's output as comment.
C11_MismatchedFeatureToggled ==
    (FeatureMismatched /\ ~pass.test) =>
        /\ Mutations = <<Call(ToggleFn, pass.name, EmptyText)>>
        /\ Returned
        /\ ret.result = PyTrue
        /\ ret.changes = Changes(pass.name,
                                 IF WantsEnabled THEN "Enabled." ELSE "Disabled.")
        /\ ret.comment = calls[2].output

\* A real feature_enabled pass on a feature reported disabled.
C11_Witness ==
    /\ pass.fn = "feature_enabled" /\ ~pass.test
    /\ FeatureMismatched
    /\ MutationNames = <<"alkivi_chocolatey.enable_feature">>
    /\ ret.comment = OutputOk

\* Some mutation call of the last pass returned text with the failure marker.
SomeMutationFailed ==
    \E i \in 1 .. Len(calls) :
        IsMutation(calls[i]) /\ TextIn(FailureMarker, calls[i].output)

\* C12 as stated: a pass in which a mutation call reported failure ends as
\* Failed: it raises or returns result False, and never returns result True
\* with a reported change.
C12_FailedMutationFailsPass ==
    SomeMutationFailed =>
        /\ Raised \/ ret.result = "False"
        /\ ~(Returned /\ ret.result = PyTrue /\ ret.changes # {})

\* What a real run of the last pass's descriptor would do against the listing
\* the pass read, booleans read as text = 'True'.
ProspectiveAction ==
    CASE pass.fn = "source_present" ->
            IF ~InSnapshot THEN "Create"
            ELSE IF RecreateNeeded THEN "Recreate"
            ELSE IF EnabledDiffers
                 THEN (IF pass.enabled THEN "Enable" ELSE "Disable")
                 ELSE "NoChange"
      [] pass.fn = "source_absent" -> IF InSnapshot THEN "Remove" ELSE "NoChange"
      [] FeaturePass ->
            IF pass.name \notin DOMAIN snapshot THEN "Unknown"
            ELSE IF WantsEnabled
                 THEN (IF ReportedText = "True" THEN "NoChange" ELSE "Enable")
                 ELSE (IF ReportedText = "False" THEN "NoChange" ELSE "Disable")
      [] OTHER -> "NoChange"

\* The change descriptions that name an action.
DescriptionsOf(action) ==
    CASE action = "Create" -> {"Will be created."}
      [] action = "Recreate" -> {"Will be re-created with correct params"}
      [] action = "Enable" -> {"Will be enabled."}
      [] action = "Disable" -> {"Will be disabled."}
      [] action = "Remove" -> {"Will be removed."}
      [] OTHER -> {}

\* C13 as stated: a dry-run pass whose real run would create, recreate,
\* enable, disable or remove returns a change description for its resource
\* that names that action.
C13_DryRunDescribesChange ==
    (pass.test /\ ProspectiveAction \in {"Create", "Recreate", "Enable", "Disable", "Remove"}) =>
        /\ Returned
        /\ \E d \in DescriptionsOf(ProspectiveAction) :
               ret.changes = Changes(pass.name, d)

\* Every mutation call of the last pass has the pass's name as its target.
TargetsOnlyName ==
    \A i \in 1 .. Len(calls) : IsMutation(calls[i]) => calls[i].name = pass.name

\* A step leaves the entry of every name but the pass's own as it was.
OthersUnchanged ==
    /\ \A n \in (DOMAIN choco_sources \cup DOMAIN choco_sources') \ {pass'.name} :
           /\ n \in DOMAIN choco_sources /\ n \in DOMAIN choco_sources'
           /\ choco_sources'[n] = choco_sources[n]
    /\ \A n \in (DOMAIN choco_features \cup DOMAIN choco_features') \ {pass'.name} :
           /\ n \in DOMAIN choco_features /\ n \in DOMAIN choco_features'
           /\ choco_features'[n] = choco_features[n]
    /\ \A n \in (DOMAIN choco_features_gui \cup DOMAIN choco_features_gui')
                    \ {pass'.name} :
           /\ n \in DOMAIN choco_features_gui /\ n \in DOMAIN choco_features_gui'
           /\ choco_features_gui'[n] = choco_features_gui[n]

\* C14: every mutation call of a pass targets the name the pass was given, and
\* a pass leaves the listed entry of every other source and feature name
\* unchanged, so they stay unchanged over any sequence of passes.
C14_OnlyNamedResourceTouched == [][TargetsOnlyName' /\ OthersUnchanged]_vars

\* A real source_absent pass that removed its source while another is listed.
C14_Witness ==
    /\ pass.fn = "source_absent" /\ ~pass.test
    /\ InSnapshot /\ pass.name \notin DOMAIN choco_sources
    /\ \E n \in OtherSourceNames : n \in DOMAIN choco_sources

\* The words of a text.
WordsOf(text) == {text[i] : i \in 1 .. Len(text)}

\* C15 as stated: every outcome of a pass names the pass's resource and carries
\* the provider output when there is one: a returned result has the name and,
\* after a mutation call, that call's output as comment; a raised error has
\* the name in its message and, after a mutation call, that call's output.
C15_OutcomeNamesResource ==
    /\ Returned =>
          /\ ret.name = pass.name
          /\ Mutations # <<>> => ret.comment = calls[Len(calls)].output
    /\ Raised =>
          /\ pass.name \in WordsOf(exc.message)
          /\ Mutations # <<>> => TextIn(calls[Len(calls)].output, exc.message)

\* C16 as stated: a pass ends either returning or raising, never both; a pass
\* whose resource is already as wanted returns result True with no changes and
\* makes no mutation, with the test flag set or not; result None is returned
\* only when a change would be made.
C16_CompliantIsNoOpInBothModes ==
    (SourcePass \/ FeaturePass) =>
        /\ Returned # Raised
        /\ ProspectiveAction = "NoChange" =>
               /\ ret = InitialRet(pass.name)
               /\ Mutations = <<>>
        /\ (Returned /\ ret.result = PyNone) => ProspectiveAction # "NoChange"

\* C17 as stated: the flag text is read as true exactly when it is 'True' at
\* every comparison: a real feature_enabled pass on a listed feature mutates
\* exactly when the text is not 'True', a real feature_disabled pass exactly
\* when it is 'True', and source_present toggles exactly when enabled differs
\* from Disabled read that way; so on no listing do feature_enabled and
\* feature_disabled both mutate, or both do nothing.
C17_OneReadingOfFlagText ==
    /\ (FeaturePass /\ ~pass.test /\ pass.name \in DOMAIN snapshot) =>
          ((Mutations # <<>>) = (IF WantsEnabled THEN ReportedText # "True"
                                 ELSE ReportedText = "True"))
    /\ (RealSourcePresent /\ InSnapshot /\ ~RecreateNeeded) =>
          ((Mutations # <<>>) = EnabledDiffers)
    /\ \A n \in FeatureNames \cap DOMAIN choco_features :
          (MutationCalls(feature_enabled_run(choco_features, n, FALSE, OutputOk)) > 0)
              # (MutationCalls(feature_disabled_run(choco_features, n, FALSE, OutputOk)) > 0)

\* The GUI call that stands for a standard one.
GuiFn(fn) ==
    CASE fn = "alkivi_chocolatey.list_features" -> "alkivi_chocolatey.list_features_gui"
      [] fn = "alkivi_chocolatey.enable_feature" -> "alkivi_chocolatey.enable_feature_gui"
      [] fn = "alkivi_chocolatey.disable_feature" -> "alkivi_chocolatey.disable_feature_gui"
      [] OTHER -> fn

StandardFeatureFns ==
    {"alkivi_chocolatey.list_features", "alkivi_chocolatey.enable_feature",
     "alkivi_chocolatey.disable_feature"}

GuiFeatureFns == {GuiFn(fn) : fn \in StandardFeatureFns}

GuiPass == pass.fn \in {"feature_gui_enabled", "feature_gui_disabled"}

\* The frame the standard function ends in on the listing, name, test flag and
\* provider output of the last (GUI) pass.
StandardTwin ==
    LET out == IF Len(calls) >= 2 THEN calls[2].output ELSE OutputOk
    IN  IF pass.fn = "feature_gui_enabled"
        THEN feature_enabled_run(snapshot, pass.name, pass.test, out)
        ELSE feature_disabled_run(snapshot, pass.name, pass.test, out)

\* C18: a GUI feature pass ends as the standard function does on the same
\* listing, name, test flag and provider output: same result or error, same
\* listing afterwards, and the same calls with list_features, enable_feature,
\* disable_feature replaced by their _gui counterparts; a GUI pass calls only
\* the GUI functions and a standard pass only the standard ones.
C18_GuiIsStandardOverGuiCalls ==
    /\ GuiPass =>
          /\ ret = StandardTwin.ret
          /\ exc = StandardTwin.exc
          /\ choco_features_gui = StandardTwin.srcs
          /\ calls = [i \in 1 .. Len(StandardTwin.calls) |->
                        [StandardTwin.calls[i] EXCEPT !.fn = GuiFn(@)]]
          /\ \A i \in 1 .. Len(calls) : calls[i].fn \in GuiFeatureFns
    /\ (FeaturePass /\ ~GuiPass) =>
          \A i \in 1 .. Len(calls) : calls[i].fn \in StandardFeatureFns

\* A real feature_gui_disabled pass that disabled a feature reported enabled.
C18_Witness ==
    /\ pass.fn = "feature_gui_disabled" /\ ~pass.test
    /\ pass.name \in DOMAIN snapshot /\ ReportedText = "True"
    /\ MutationNames = <<"alkivi_chocolatey.disable_feature_gui">>

\* The number of mutation calls a second real pass with the descriptor of the
\* last pass would make now, all provider calls succeeding.
SecondPassMutations ==
    CASE pass.fn = "source_present" ->
            MutationCalls(source_present_run(choco_sources, pass.name,
                pass.source_location, pass.enabled, pass.username, pass.password,
                pass.allow_self_service, pass.admin_only, FALSE, OutputOk, OutputOk))
      [] pass.fn = "source_absent" ->
            MutationCalls(source_absent_run(choco_sources, pass.name, FALSE, OutputOk))
      [] pass.fn = "feature_enabled" ->
            MutationCalls(feature_enabled_run(choco_features, pass.name, FALSE, OutputOk))
      [] pass.fn = "feature_disabled" ->
            MutationCalls(feature_disabled_run(choco_features, pass.name, FALSE, OutputOk))
      [] pass.fn = "feature_gui_enabled" ->
            MutationCalls(feature_gui_enabled_run(choco_features_gui, pass.name, FALSE, OutputOk))
      [] pass.fn = "feature_gui_disabled" ->
            MutationCalls(feature_gui_disabled_run(choco_features_gui, pass.name, FALSE, OutputOk))
      [] OTHER -> 0

\* C19 as stated: after a real pass that returned and in which every provider
\* call succeeded, a second pass with the same descriptor makes no mutation.
C19_SecondPassIsNoOp ==
    ((SourcePass \/ FeaturePass) /\ ~pass.test /\ Returned /\ ~SomeMutationFailed)
        => SecondPassMutations = 0

====
